---- MODULE Spec2Model ----
(***************************************************************************)
(* Push/local notification management of the trade-signals app:            *)
(* requestNotificationPermissions, registerForPushNotifications,           *)
(* sendLocalNotification, sendTestNotification and                         *)
(* setupNotificationListeners, run as interleaved async calls against the  *)
(* platform notification center and the database module.                   *)
(*                                                                         *)
(* An async call is a slot of `call`; its pc names the promise it is       *)
(* suspended on.  One action is one run of the JavaScript event loop: the  *)
(* settling of the awaited promise together with the synchronous code      *)
(* that follows it up to the next await (which includes issuing the next   *)
(* platform or database call).                                             *)
(***************************************************************************)
EXTENDS Integers, Sequences, FiniteSets, TLC

\* ---------------------------------------------------------------- bounds
MaxCalls == 2
MaxAttach == 2
MaxTeardowns == 2
MaxEvents == 1

Calls == 1..MaxCalls
Attachments == 1..MaxAttach

\* ------------------------------------------------------------ value sets
\* the user of this app session
Users == {"u1"}
Tokens == {"tokA", "tokB"}
Platforms == {"ios", "android", "web"}
PermissionStatuses == {"undetermined", "denied", "granted"}
Absent == "absent"

\* notification payloads (`data?: any`); a missing field is Absent
NoData == [type |-> Absent, signal_id |-> Absent, pair |-> Absent]
TestPayload == [type |-> Absent, signal_id |-> "test-123", pair |-> "XAU/USD"]
SignalPayload == [type |-> "signal", signal_id |-> "sig-7", pair |-> Absent]

testData ==
    [type |-> "signal", title |-> "Test Signal Alert",
     message |-> "This is a test notification from your trading app!",
     data |-> TestPayload]

\* the union type of PushNotificationData.type
Kinds == {"signal", "achievement", "announcement", "alert"}

\* what a caller can hand to sendLocalNotification; the type annotation is
\* erased at run time, so the last one, of no known kind, gets in as well
Inputs ==
    { testData,
      [type |-> "signal", title |-> "New Signal Available",
       message |-> "XAG/USD SELL signal just published", data |-> SignalPayload],
      [type |-> "alert", title |-> "Stop Loss Hit",
       message |-> "XAG/USD position closed at stop loss", data |-> NoData],
      [type |-> "promo", title |-> "Weekend Offer",
       message |-> "Upgrade to premium signals", data |-> NoData] }

NoInput == [type |-> Absent, title |-> Absent, message |-> Absent, data |-> NoData]

RemotePayloads == {SignalPayload, NoData}

\* the array literal of NotificationSheet
SheetNotifications ==
    << [id |-> "1", type |-> "signal", title |-> "Signal Closed - Profit!",
        timestamp |-> "2 hours ago", read |-> FALSE, reached |-> 13],
       [id |-> "2", type |-> "achievement", title |-> "Streak Achievement!",
        timestamp |-> "1 day ago", read |-> FALSE, reached |-> 14],
       [id |-> "3", type |-> "signal", title |-> "New Signal Available",
        timestamp |-> "2 days ago", read |-> TRUE, reached |-> 16],
       [id |-> "4", type |-> "announcement", title |-> "Market Update",
        timestamp |-> "3 days ago", read |-> TRUE, reached |-> 24],
       [id |-> "5", type |-> "alert", title |-> "Stop Loss Hit",
        timestamp |-> "1 week ago", read |-> TRUE, reached |-> 50] >>

\* a row the shared profile store already holds for a user of another device
OtherProfile ==
    [user_id |-> "u0", fcm_token |-> "tokA", device_type |-> "android",
     app_version |-> "1.0.0"]

NoInvocations ==
    [getPermissionsAsync |-> 0, requestPermissionsAsync |-> 0,
     getExpoPushTokenAsync |-> 0, upsertUserProfile |-> 0,
     scheduleNotificationAsync |-> 0, createNotification |-> 0]

IdleCall ==
    [op |-> "none", pc |-> "idle", userId |-> "none", input |-> NoInput,
     existingStatus |-> "unset", finalStatus |-> "unset",
     hasPermission |-> "pending", token |-> "none",
     result |-> "pending", raised |-> FALSE, failed |-> "none",
     invoked |-> NoInvocations, upserted |-> FALSE, profileAfter |-> {},
     logged |-> {}, overlapped |-> FALSE]

VARIABLES
    platformOS,     \* Platform.OS
    permStatus,     \* the operating system's notification permission state
    deviceToken,    \* the token the platform push service currently issues
    call,           \* the async calls: slot -> activation record
    profiles,       \* rows of the user-profile store
    notifications,  \* rows of the notification store, in creation order
    displayed,      \* inputs the platform has shown as a local notification
    subs,           \* listeners registered with the platform notification center
    attach,         \* attachment -> the two handles its teardown closes over
    events,         \* number of platform events delivered so far
    delivered,      \* payloads of the taps a response listener has handled
    consoleLog,     \* tags of the messages the listeners wrote to the console
    onOpenedCalls,  \* payloads handed to a caller-supplied opened handler
    notificationVisible,  \* HomeScreen state: the notification sheet is shown
    sheetList       \* the notifications array of the sheet's last render

vars == <<platformOS, permStatus, deviceToken, call, profiles,
          notifications, displayed, subs, attach, events, delivered,
          consoleLog, onOpenedCalls, notificationVisible, sheetList>>

platformVars == <<platformOS, permStatus, deviceToken>>
storeVars == <<profiles, notifications>>
hubVars == <<subs, attach, events, delivered, onOpenedCalls>>
sheetVars == <<notificationVisible, sheetList>>

NoAttach == [notificationListener |-> 0, responseListener |-> 0,
             teardowns |-> 0, raised |-> FALSE]

Init ==
    /\ platformOS \in Platforms
    /\ permStatus \in PermissionStatuses
    /\ deviceToken = "tokA"
    /\ call = [c \in Calls |-> IdleCall]
    /\ profiles = {OtherProfile}
    /\ notifications = <<>>
    /\ displayed = {}
    /\ subs = {}
    /\ attach = [a \in Attachments |-> NoAttach]
    /\ events = 0
    /\ delivered = <<>>
    /\ consoleLog = {}
    /\ onOpenedCalls = <<>>
    /\ notificationVisible = FALSE
    /\ sheetList = SheetNotifications

\* ------------------------------------------------------------- helpers
Invoke(r, api) == [r EXCEPT !.invoked[api] = @ + 1]

\* console.log / console.error from inside an async call, kept with the call
Log(r, msg) == [r EXCEPT !.logged = @ \cup {msg}]

\* a call slot is taken in order, so that slots are not permuted
FreeSlot(c) ==
    /\ call[c].op = "none"
    /\ \A d \in Calls : d < c => call[d].op # "none"

BoolStr(b) == IF b THEN "true" ELSE "false"

\* ------------------------------------------------ database module (./database)
\* insert-or-update keyed by user_id
upsertUserProfile(rows, fields) ==
    {r \in rows : r.user_id # fields.user_id} \cup {fields}

\* assigns id and read = false to the new record
createNotification(store, fields) ==
    Append(store,
           [id |-> Len(store) + 1, type |-> fields.type, title |-> fields.title,
            message |-> fields.message, data |-> fields.data, read |-> FALSE])

\* ------------------------------------------- requestNotificationPermissions
IsWebNever(os) == FALSE

IsWeb(os) == os = "web"

NeedsRequestAlways(existingStatus) == TRUE

NeedsRequest(existingStatus) == existingStatus # "granted"

IsGranted(finalStatus) == finalStatus = "granted"

\* the value requestNotificationPermissions resolves with reaches its caller:
\* the outside caller, or registerForPushNotifications awaiting it (line 46)
PermissionReturn(r, b) ==
    IF r.op = "register"
    THEN [r EXCEPT !.pc = "await_permission", !.hasPermission = BoolStr(b)]
    ELSE [r EXCEPT !.pc = "done", !.hasPermission = BoolStr(b),
                   !.result = BoolStr(b)]

PermissionRethrow(r, step) ==
    [r EXCEPT !.failed = step, !.raised = TRUE, !.pc = "done", !.result = "error"]

\* catch (error) { console.error(...); return false; }
PermissionCatch(r, step) ==
    PermissionReturn(Log([r EXCEPT !.failed = step],
                         "Error requesting notification permissions:"), FALSE)

\* the synchronous head of requestNotificationPermissions: the web check and
\* the issuing of getPermissionsAsync
PermissionEnter(r, os) ==
    IF IsWeb(os)
    THEN PermissionReturn(r, FALSE)
    ELSE Invoke([r EXCEPT !.pc = "await_getPermissions"], "getPermissionsAsync")

CallRequestPermissions(c) ==
    /\ FreeSlot(c)
    /\ call' = [call EXCEPT ![c] =
                  PermissionEnter([IdleCall EXCEPT !.op = "requestPermissions"],
                                  platformOS)]
    /\ UNCHANGED <<sheetVars, platformVars, storeVars, displayed, hubVars, consoleLog>>

\* getPermissionsAsync settles: it reports the current state, or rejects
GetPermissionsSettles(c) ==
    /\ call[c].pc = "await_getPermissions"
    /\ \E ok \in BOOLEAN :
         IF ok
         THEN LET r == [call[c] EXCEPT !.existingStatus = permStatus,
                                       !.finalStatus = permStatus]
              IN /\ call' = [call EXCEPT ![c] =
                      IF NeedsRequest(r.existingStatus)
                      THEN Invoke([r EXCEPT !.pc = "await_requestPermissions"],
                                  "requestPermissionsAsync")
                      ELSE PermissionReturn(r, IsGranted(r.finalStatus))]
         ELSE /\ call' = [call EXCEPT ![c] =
                            PermissionCatch(call[c], "getPermissionsAsync")]
    /\ UNCHANGED <<sheetVars, platformVars, storeVars, displayed, hubVars, consoleLog>>

\* requestPermissionsAsync settles: the user (or the OS) answers, or it rejects
RequestPermissionsSettles(c) ==
    /\ call[c].pc = "await_requestPermissions"
    /\ \E ok \in BOOLEAN :
         IF ok
         THEN \E status \in PermissionStatuses :
                /\ permStatus' = status
                /\ call' = [call EXCEPT ![c] =
                     PermissionReturn([call[c] EXCEPT !.finalStatus = status],
                                      IsGranted(status))]
         ELSE /\ call' = [call EXCEPT ![c] =
                            PermissionCatch(call[c], "requestPermissionsAsync")]
              /\ UNCHANGED permStatus
    /\ UNCHANGED <<sheetVars, platformOS, deviceToken, storeVars, displayed, hubVars, consoleLog>>

\* ---------------------------------------------- registerForPushNotifications
ProfileFieldsKeyedByToken(userId, token, os) ==
    [user_id |-> token, fcm_token |-> token, device_type |-> os,
     app_version |-> "1.0.0"]

ProfileFieldsSwapped(userId, token, os) ==
    [user_id |-> userId, fcm_token |-> os, device_type |-> token,
     app_version |-> "1.0.0"]

ProfileFields(userId, token, os) ==
    [user_id |-> userId, fcm_token |-> token, device_type |-> os,
     app_version |-> "1.0.0"]

RegisterReturn(r, value) == [r EXCEPT !.pc = "done", !.result = value]

RegisterCatchKeepsToken(r, step) ==
    RegisterReturn(Log([r EXCEPT !.failed = step],
                       "Error registering for push notifications:"),
                   IF r.token # "none" THEN r.token ELSE "null")

\* catch (error) { console.error(...); return null; }
RegisterCatch(r, step) ==
    RegisterReturn(Log([r EXCEPT !.failed = step],
                       "Error registering for push notifications:"), "null")

RegisterAfterPermissionUnguarded(r, os) ==
    IF IsWeb(os)
    THEN RegisterReturn(r, "null")
    ELSE Invoke([r EXCEPT !.pc = "await_token"], "getExpoPushTokenAsync")

\* the guards of lines 47-54, then the issuing of getExpoPushTokenAsync
RegisterAfterPermission(r, os) ==
    IF r.hasPermission # "true"
    THEN RegisterReturn(Log(r, "Notification permissions not granted"), "null")
    ELSE IF IsWeb(os)
         THEN RegisterReturn(r, "null")
         ELSE Invoke([r EXCEPT !.pc = "await_token"], "getExpoPushTokenAsync")

CallRegister(c, userId) ==
    /\ FreeSlot(c)
    /\ call' = [call EXCEPT ![c] =
                  PermissionEnter([IdleCall EXCEPT !.op = "register",
                                                   !.userId = userId],
                                  platformOS)]
    /\ UNCHANGED <<sheetVars, platformVars, storeVars, displayed, hubVars, consoleLog>>

\* `await requestNotificationPermissions()` resumes
RegisterResumes(c) ==
    /\ call[c].pc = "await_permission"
    /\ call' = [call EXCEPT ![c] = RegisterAfterPermission(call[c], platformOS)]
    /\ UNCHANGED <<sheetVars, platformVars, storeVars, displayed, hubVars, consoleLog>>

\* getExpoPushTokenAsync settles; on success upsertUserProfile is issued
TokenSettles(c) ==
    /\ call[c].pc = "await_token"
    /\ \E ok \in BOOLEAN :
         IF ok
         THEN /\ call' = [call EXCEPT ![c] =
                   Invoke([call[c] EXCEPT !.token = deviceToken,
                                          !.pc = "await_upsert"],
                          "upsertUserProfile")]
         ELSE /\ call' = [call EXCEPT ![c] =
                            RegisterCatch(call[c], "getExpoPushTokenAsync")]
    /\ UNCHANGED <<sheetVars, platformVars, storeVars, displayed, hubVars, consoleLog>>

\* another register call for the same user has its upsert in flight
UpsertInFlight(c) ==
    \E d \in Calls \ {c} :
        /\ call[d].pc = "await_upsert"
        /\ call[d].userId = call[c].userId

\* upsertUserProfile settles: the row is written, or the call rejects
UpsertSettles(c) ==
    /\ call[c].pc = "await_upsert"
    /\ \E ok \in BOOLEAN :
         IF ok
         THEN LET rows == upsertUserProfile(profiles,
                              ProfileFields(call[c].userId, call[c].token, platformOS))
              IN /\ profiles' = rows
                 /\ call' = [call EXCEPT ![c] =
                      RegisterReturn(
                        Log([call[c] EXCEPT !.upserted = TRUE,
                               !.overlapped = UpsertInFlight(c),
                               !.profileAfter =
                                  {p \in rows : p.user_id = call[c].userId}],
                            "Push notification token registered:"),
                        call[c].token)]
         ELSE /\ call' = [call EXCEPT ![c] =
                            RegisterCatch(call[c], "upsertUserProfile")]
              /\ UNCHANGED profiles
    /\ UNCHANGED <<sheetVars, platformVars, notifications, displayed, hubVars, consoleLog>>

\* the push service invalidates the device token and issues another
RotateToken ==
    /\ \E t \in Tokens \ {deviceToken} : deviceToken' = t
    /\ UNCHANGED <<sheetVars, platformOS, permStatus, call, storeVars, displayed, hubVars,
                   consoleLog>>

\* ------------------------------------------------------ sendLocalNotification
\* sendLocalNotification resolves: to the outside caller, or to
\* sendTestNotification awaiting it (line 136)
DispatchReturn(r) ==
    IF r.op = "sendTest"
    THEN [r EXCEPT !.pc = "await_sendLocal"]
    ELSE [r EXCEPT !.pc = "done", !.result = IF r.raised THEN "error" ELSE "void"]

DispatchRethrow(r, step) ==
    DispatchReturn([r EXCEPT !.failed = step, !.raised = TRUE])

\* catch (error) { console.error('Error sending local notification:', error); }
DispatchCatch(r, step) ==
    DispatchReturn(Log([r EXCEPT !.failed = step], "Error sending local notification:"))

DispatchEnterBothAtOnce(r) ==
    Invoke(Invoke([r EXCEPT !.pc = "await_schedule"], "scheduleNotificationAsync"),
           "createNotification")

\* the synchronous head of sendLocalNotification: scheduleNotificationAsync is issued
DispatchEnter(r) ==
    Invoke([r EXCEPT !.pc = "await_schedule"], "scheduleNotificationAsync")

\* what sendLocalNotification passes to createNotification
RecordFields(data) ==
    [type |-> data.type, title |-> data.title, message |-> data.message,
     data |-> data.data]

CallSendLocal(c, data) ==
    /\ FreeSlot(c)
    /\ call' = [call EXCEPT ![c] =
                  DispatchEnter([IdleCall EXCEPT !.op = "sendLocal", !.input = data])]
    /\ UNCHANGED <<sheetVars, platformVars, storeVars, displayed, hubVars, consoleLog>>

CallSendTest(c) ==
    /\ FreeSlot(c)
    /\ call' = [call EXCEPT ![c] =
                  DispatchEnter([IdleCall EXCEPT !.op = "sendTest", !.input = testData])]
    /\ UNCHANGED <<sheetVars, platformVars, storeVars, displayed, hubVars, consoleLog>>

\* scheduleNotificationAsync settles: the banner is shown and createNotification
\* is issued, or the rejection lands in the catch block
ScheduleSettles(c) ==
    /\ call[c].pc = "await_schedule"
    /\ \E ok \in BOOLEAN :
         IF ok
         THEN /\ displayed' = displayed \cup {call[c].input}
              /\ call' = [call EXCEPT ![c] =
                   Invoke([call[c] EXCEPT !.pc = "await_create"], "createNotification")]
         ELSE /\ call' = [call EXCEPT ![c] =
                            DispatchCatch(call[c], "scheduleNotificationAsync")]
              /\ UNCHANGED displayed
    /\ UNCHANGED <<sheetVars, platformVars, storeVars, hubVars, consoleLog>>

\* createNotification settles: the record is stored, or the call rejects
CreateSettles(c) ==
    /\ call[c].pc = "await_create"
    /\ \E ok \in BOOLEAN :
         IF ok
         THEN /\ notifications' =
                   createNotification(notifications, RecordFields(call[c].input))
              /\ call' = [call EXCEPT ![c] = DispatchReturn(call[c])]
         ELSE /\ call' = [call EXCEPT ![c] =
                            DispatchCatch(call[c], "createNotification")]
              /\ UNCHANGED notifications
    /\ UNCHANGED <<sheetVars, platformVars, profiles, displayed, hubVars, consoleLog>>

\* `await sendLocalNotification(testData)` resumes in sendTestNotification,
\* which has no handler of its own
SendTestResumes(c) ==
    /\ call[c].pc = "await_sendLocal"
    /\ call' = [call EXCEPT ![c].pc = "done",
                             ![c].result = IF call[c].raised THEN "error" ELSE "void"]
    /\ UNCHANGED <<sheetVars, platformVars, storeVars, displayed, hubVars, consoleLog>>

\* -------------------------------------------------- setupNotificationListeners
\* handles are issued by the platform, two per attachment
ReceivedHandle(a) == 2 * a - 1
ResponseHandle(a) == 2 * a

\* Notifications.add...Listener: the platform records the listener
AddListener(registry, handle, kind) == registry \cup {[id |-> handle, kind |-> kind]}

\* Notifications.removeNotificationSubscription: subscription.remove(), which
\* leaves the registry alone when the listener is already gone
RemoveSubscription(registry, handle) == {s \in registry : s.id # handle}

\* removeNotificationSubscription throws only for a value that is no subscription
RemoveThrows(handle) == handle = 0

UnsubscribeFirstOnly(registry, att) ==
    RemoveSubscription(registry, att.notificationListener)

\* the body of the closure returned by setupNotificationListeners
UnsubscribeBoth(registry, att) ==
    RemoveSubscription(RemoveSubscription(registry, att.notificationListener),
                       att.responseListener)

Truthy(v) == v # Absent /\ v # ""

\* the listener of lines 102-104
ReceivedHandler(log) == log \cup {"Notification received:"}

\* the listener of lines 107-116
ResponseHandler(log, data) ==
    IF data.type = "signal" /\ Truthy(data.signal_id)
    THEN log \cup {"Notification response:", "Navigate to signal:"}
    ELSE log \cup {"Notification response:"}

RECURSIVE RunHandlers(_, _, _)
\* the platform calls every listener of a kind, one after the other
RunHandlers(n, log, data) ==
    IF n = 0 THEN log ELSE RunHandlers(n - 1, ResponseHandler(log, data), data)

Listeners(kind) == {s \in subs : s.kind = kind}

SetupListeners(a) ==
    /\ attach[a].notificationListener = 0
    /\ \A b \in Attachments : b < a => attach[b].notificationListener # 0
    /\ subs' = AddListener(AddListener(subs, ReceivedHandle(a), "received"),
                           ResponseHandle(a), "response")
    /\ attach' = [attach EXCEPT ![a].notificationListener = ReceivedHandle(a),
                                ![a].responseListener = ResponseHandle(a)]
    /\ UNCHANGED <<sheetVars, platformVars, call, storeVars, displayed, events, delivered,
                   consoleLog, onOpenedCalls>>

\* the closure returned by setupNotificationListeners (lines 118-121)
Teardown(a) ==
    /\ attach[a].notificationListener # 0
    /\ attach[a].teardowns < MaxTeardowns
    /\ subs' = UnsubscribeBoth(subs, attach[a])
    /\ attach' = [attach EXCEPT
                    ![a].teardowns = @ + 1,
                    ![a].raised = @ \/ RemoveThrows(attach[a].notificationListener)
                                    \/ RemoveThrows(attach[a].responseListener)]
    /\ UNCHANGED <<sheetVars, platformVars, call, storeVars, displayed, events, delivered,
                   consoleLog, onOpenedCalls>>

\* payloads a notification can carry: shown locally, or pushed from outside
Deliverable == {d.data : d \in displayed} \cup RemotePayloads

\* a notification arrives while the app is in the foreground
NotificationReceived ==
    /\ events < MaxEvents
    /\ events' = events + 1
    /\ consoleLog' = IF Listeners("received") # {}
                     THEN ReceivedHandler(consoleLog) ELSE consoleLog
    /\ UNCHANGED <<sheetVars, platformVars, call, storeVars, displayed, subs, attach,
                   delivered, onOpenedCalls>>

\* the user taps a notification
NotificationResponse ==
    /\ events < MaxEvents
    /\ \E data \in Deliverable :
         LET n == Cardinality(Listeners("response"))
         IN /\ consoleLog' = RunHandlers(n, consoleLog, data)
            /\ delivered' = IF n > 0 THEN Append(delivered, data) ELSE delivered
    /\ events' = events + 1
    /\ UNCHANGED <<sheetVars, platformVars, call, storeVars, displayed, subs, attach,
                   onOpenedCalls>>

\* ------------------------------------------------------------ NotificationSheet
RenderSheetAllUnread(previous) ==
    [i \in DOMAIN previous |-> [previous[i] EXCEPT !.read = FALSE]]

\* a render of NotificationSheet builds its notifications array anew; nothing
\* of the previous render is kept, the component has no state of its own
RenderSheet(previous) == SheetNotifications

\* the bell button: setNotificationVisible(true), and the sheet renders
OpenSheet ==
    /\ ~notificationVisible
    /\ notificationVisible' = TRUE
    /\ sheetList' = RenderSheet(sheetList)
    /\ UNCHANGED <<platformVars, call, storeVars, displayed, hubVars, consoleLog>>

\* onClose (the close button or the backdrop): setNotificationVisible(false)
CloseSheet ==
    /\ notificationVisible
    /\ notificationVisible' = FALSE
    /\ sheetList' = RenderSheet(sheetList)
    /\ UNCHANGED <<platformVars, call, storeVars, displayed, hubVars, consoleLog>>

\* PermissionGate and TokenRegistrar
NextRegistrar ==
    \/ \E c \in Calls : CallRequestPermissions(c)
    \/ \E c \in Calls : GetPermissionsSettles(c)
    \/ \E c \in Calls : RequestPermissionsSettles(c)
    \/ \E c \in Calls, u \in Users : CallRegister(c, u)
    \/ \E c \in Calls : RegisterResumes(c)
    \/ \E c \in Calls : TokenSettles(c)
    \/ \E c \in Calls : UpsertSettles(c)
    \/ RotateToken

\* NotificationDispatcher
NextDispatcher ==
    \/ \E c \in Calls, d \in Inputs : CallSendLocal(c, d)
    \/ \E c \in Calls : CallSendTest(c)
    \/ \E c \in Calls : ScheduleSettles(c)
    \/ \E c \in Calls : CreateSettles(c)
    \/ \E c \in Calls : SendTestResumes(c)

\* ListenerHub
NextHub ==
    \/ \E a \in Attachments : SetupListeners(a)
    \/ \E a \in Attachments : Teardown(a)
    \/ NotificationReceived
    \/ NotificationResponse

\* the listing UI
NextSheet ==
    \/ OpenSheet
    \/ CloseSheet

Next == NextRegistrar \/ NextDispatcher \/ NextHub \/ NextSheet

\* the whole subsystem
Spec == Init /\ [][Next]_vars

\* the components on their own: they share no state but the call slots
SpecRegistrar == Init /\ [][NextRegistrar]_vars
SpecDispatcher == Init /\ [][NextDispatcher]_vars
SpecHub == Init /\ [][NextHub]_vars

\* an app session: register, dispatch, listener events and the sheet together
NextSession ==
    \/ \E c \in Calls, u \in Users : CallRegister(c, u)
    \/ \E c \in Calls : GetPermissionsSettles(c)
    \/ \E c \in Calls : RequestPermissionsSettles(c)
    \/ \E c \in Calls : RegisterResumes(c)
    \/ \E c \in Calls : TokenSettles(c)
    \/ \E c \in Calls : UpsertSettles(c)
    \/ NextDispatcher
    \/ \E a \in Attachments : SetupListeners(a)
    \/ NotificationReceived
    \/ NotificationResponse
    \/ NextSheet

SpecSession == Init /\ [][NextSession]_vars

\* ================================================================ properties
Done(c) == call[c].pc = "done"
IsDispatch(c) == call[c].op \in {"sendLocal", "sendTest"}
IsRegister(c) == call[c].op = "register"
AsksPermission(c) == call[c].op \in {"requestPermissions", "register"}
PermissionFailures == {"getPermissionsAsync", "requestPermissionsAsync"}

\* C1: every completed dispatch (sendLocalNotification, alone or through
\* sendTestNotification) has attempted createNotification exactly once,
\* also when scheduleNotificationAsync failed.
C1_OneRecordAttemptPerDispatch ==
    \A c \in Calls :
        IsDispatch(c) /\ Done(c) => call[c].invoked.createNotification = 1

\* C2: a dispatch never raises to its caller: whichever step failed, the call
\* (and sendTestNotification around it) completes with no error outcome.
C2_DispatchNeverRaises ==
    \A c \in Calls :
        IsDispatch(c) =>
            /\ ~call[c].raised
            /\ call[c].result # "error"
            /\ Done(c) => call[c].result = "void"

C2_Witness ==
    \E c, d \in Calls :
        /\ call[c].op = "sendLocal" /\ Done(c)
        /\ call[c].failed = "scheduleNotificationAsync"
        /\ call[d].op = "sendTest" /\ Done(d)
        /\ call[d].failed = "createNotification"

\* C3: a register call whose permission result is not granted never invokes
\* getExpoPushTokenAsync or upsertUserProfile, and returns null.
C3_DeniedRegisterSkipsTokenService ==
    \A c \in Calls :
        IsRegister(c) /\ call[c].hasPermission = "false" =>
            /\ call[c].invoked.getExpoPushTokenAsync = 0
            /\ call[c].invoked.upsertUserProfile = 0
            /\ call[c].pc \in {"await_permission", "done"}
            /\ Done(c) => call[c].result = "null"

C3_Witness ==
    \E c \in Calls :
        /\ IsRegister(c) /\ Done(c)
        /\ call[c].invoked.requestPermissionsAsync = 1
        /\ call[c].finalStatus = "denied"
        /\ call[c].result = "null"

\* C4: a register call whose token fetch or profile upsert failed returns
\* null, not the token, and no register call ever raises.
C4_RegisterAllOrNothing ==
    \A c \in Calls :
        IsRegister(c) =>
            /\ ~call[c].raised
            /\ call[c].result # "error"
            /\ (Done(c) /\ call[c].failed \in {"getExpoPushTokenAsync", "upsertUserProfile"}
                  => call[c].result = "null")

C4_Witness ==
    \E c \in Calls :
        /\ IsRegister(c) /\ Done(c)
        /\ call[c].failed = "upsertUserProfile"
        /\ call[c].token \in Tokens
        /\ call[c].result = "null"

\* the register calls for a user whose upsert has been stored
Upserted(u) == {c \in Calls : IsRegister(c) /\ call[c].userId = u /\ call[c].upserted}

ProfileRows(u) == {p \in profiles : p.user_id = u}

\* C5: when two or more register calls for one user have stored the same
\* token, run in sequence or interleaved, the store holds exactly one row for
\* that user, equal to the row after any single one of those calls: the
\* token, the platform and app version 1.0.0.
C5_RegisterIdempotent ==
    \A u \in Users :
        (/\ Cardinality(Upserted(u)) >= 2
         /\ \A c, d \in Upserted(u) : call[c].token = call[d].token)
        => /\ Cardinality(ProfileRows(u)) = 1
           /\ \A c \in Upserted(u) :
                /\ ProfileRows(u) = call[c].profileAfter
                /\ \A p \in ProfileRows(u) :
                     /\ p.fcm_token = call[c].token
                     /\ p.device_type = platformOS
                     /\ p.app_version = "1.0.0"

\* two calls for one user, same token, whose upserts were in flight together
C5_Witness ==
    \E c, d \in Calls :
        /\ c # d
        /\ {c, d} \subseteq Upserted(call[c].userId)
        /\ Done(c) /\ Done(d)
        /\ call[c].token = call[d].token
        /\ call[c].overlapped
        /\ OtherProfile \in profiles

\* C6: on web, requestNotificationPermissions returns false and neither
\* getPermissionsAsync nor requestPermissionsAsync is invoked.
C6_WebPermissionNoSideEffect ==
    platformOS = "web" =>
        \A c \in Calls :
            AsksPermission(c) =>
                /\ call[c].invoked.getPermissionsAsync = 0
                /\ call[c].invoked.requestPermissionsAsync = 0
                /\ call[c].hasPermission = "false"
                /\ call[c].op = "requestPermissions"
                     => Done(c) /\ call[c].result = "false"

C6_Witness ==
    /\ platformOS = "web"
    /\ \E c \in Calls :
         call[c].op = "requestPermissions" /\ Done(c) /\ call[c].result = "false"

\* C7: on a native platform one call issues one requestPermissionsAsync when
\* the queried state is not granted and none when it is granted, never more
\* than one, and returns true exactly when the last state the platform
\* reported to it is granted.
C7_OneRequestPerCall ==
    platformOS # "web" =>
        \A c \in Calls :
            AsksPermission(c) =>
                /\ call[c].invoked.getPermissionsAsync = 1
                /\ call[c].invoked.requestPermissionsAsync <= 1
                /\ call[c].existingStatus \in PermissionStatuses \ {"granted"}
                     => call[c].invoked.requestPermissionsAsync = 1
                /\ call[c].existingStatus = "granted"
                     => call[c].invoked.requestPermissionsAsync = 0
                /\ (call[c].hasPermission # "pending"
                      /\ call[c].failed \notin PermissionFailures)
                     => /\ call[c].finalStatus \in PermissionStatuses
                        /\ call[c].hasPermission = "true"
                             <=> call[c].finalStatus = "granted"

C7_Witness ==
    /\ platformOS # "web"
    /\ \E c, d \in Calls :
         /\ call[c].op = "requestPermissions" /\ Done(c)
         /\ call[c].existingStatus = "undetermined"
         /\ call[c].invoked.requestPermissionsAsync = 1
         /\ call[c].finalStatus = "granted" /\ call[c].result = "true"
         /\ call[d].op = "requestPermissions" /\ Done(d)
         /\ call[d].existingStatus = "granted"
         /\ call[d].invoked.requestPermissionsAsync = 0
         /\ call[d].result = "true"

\* C8: when getPermissionsAsync or requestPermissionsAsync rejects, the
\* permission result is false and nothing is raised to the caller.
C8_PermissionFailClosed ==
    \A c \in Calls :
        AsksPermission(c) =>
            /\ call[c].op = "requestPermissions" => ~call[c].raised
            /\ call[c].failed \in PermissionFailures =>
                 /\ call[c].hasPermission = "false"
                 /\ call[c].op = "requestPermissions"
                      => Done(c) /\ call[c].result = "false"

C8_Witness ==
    \E c, d \in Calls :
        /\ call[c].op = "requestPermissions" /\ Done(c)
        /\ call[c].failed = "requestPermissionsAsync"
        /\ call[d].op = "requestPermissions" /\ Done(d)
        /\ call[d].failed = "getPermissionsAsync"

Attached(a) == attach[a].notificationListener # 0

\* the listeners of attachment a that the platform still holds
ActiveOf(a) ==
    {s \in subs : s.id \in {attach[a].notificationListener, attach[a].responseListener}}

C10_TapForwardedUndecoded ==
    /\ onOpenedCalls = delivered
    /\ "Navigate to signal:" \notin consoleLog

\* C11: no step of the subsystem (dispatch, register, permission request,
\* listener setup, teardown and events, opening and closing the sheet) takes
\* a record that is read, in the notification store or in the sheet's list,
\* to a record of the same id that is unread.
C11_ReadMonotonic ==
    [][ /\ \A i \in DOMAIN notifications, j \in DOMAIN notifications' :
             (notifications[i].id = notifications'[j].id /\ notifications[i].read)
                => notifications'[j].read
        /\ \A i \in DOMAIN sheetList, j \in DOMAIN sheetList' :
             (sheetList[i].id = sheetList'[j].id /\ sheetList[i].read)
                => sheetList'[j].read ]_vars

\* the sheet has been opened over a list with read records, next to a stored
\* record of a dispatch
C11_Witness ==
    /\ notificationVisible
    /\ \E i \in DOMAIN sheetList : sheetList[i].read
    /\ Len(notifications) >= 1

\* C12: a dispatch of an unknown kind is rejected: it never gets as far as
\* issuing createNotification, and the store holds no record whose kind is
\* not signal, achievement, announcement or alert.
C12_UnknownKindRejected ==
    /\ \A c \in Calls :
         IsDispatch(c) /\ call[c].input.type \notin Kinds
            => call[c].invoked.createNotification = 0
    /\ \A i \in DOMAIN notifications : notifications[i].type \in Kinds

\* C13: within one dispatch, createNotification is issued only after
\* scheduleNotificationAsync was issued and has settled: while the display
\* is awaited no creation has started, and a started creation finds the
\* notification displayed.
C13_DisplayBeforeRecord ==
    \A c \in Calls :
        IsDispatch(c) =>
            /\ call[c].invoked.scheduleNotificationAsync = 1
            /\ call[c].pc = "await_schedule" => call[c].invoked.createNotification = 0
            /\ call[c].invoked.createNotification >= 1 =>
                 /\ call[c].pc # "await_schedule"
                 /\ call[c].failed # "scheduleNotificationAsync"
                 /\ call[c].input \in displayed

C13_Witness ==
    \E c \in Calls :
        /\ IsDispatch(c) /\ Done(c)
        /\ call[c].invoked.createNotification = 1
        /\ call[c].failed = "none"
        /\ call[c].input \in displayed
        /\ \E i \in DOMAIN notifications : notifications[i].title = call[c].input.title

\* C14: a register call that returns a token was granted permission, obtained
\* that token, and its upsert for its userId resolved; the row stored for the
\* user by that call carries exactly the returned token.
C14_ReturnedTokenWasStored ==
    \A c \in Calls :
        IsRegister(c) /\ call[c].result \in Tokens =>
            /\ Done(c)
            /\ call[c].hasPermission = "true"
            /\ call[c].failed = "none"
            /\ call[c].invoked.getExpoPushTokenAsync = 1
            /\ call[c].invoked.upsertUserProfile = 1
            /\ call[c].token = call[c].result
            /\ call[c].upserted
            /\ Cardinality(call[c].profileAfter) = 1
            /\ \A p \in call[c].profileAfter :
                 p.user_id = call[c].userId /\ p.fcm_token = call[c].result

\* a call that asked the user, got a re-issued token and returned it
C14_Witness ==
    \E c \in Calls :
        /\ IsRegister(c) /\ Done(c)
        /\ call[c].invoked.requestPermissionsAsync = 1
        /\ call[c].result = "tokB"
====
